---- MODULE Spec2Model ----
(***************************************************************************)
(* Model of spellchecker.py: a word-frequency table built once from a      *)
(* corpus, the edit generator (splits, deletes, transposes, replaces,      *)
(* inserts, edits1, edits2), the candidate cascade and the corrector.      *)
(*                                                                         *)
(* A word is a sequence of one-character strings.  A Python list is a      *)
(* sequence, a Python set is a set.  A probability count / float(N) is the *)
(* exact fraction [num |-> count, den |-> N].                              *)
(***************************************************************************)
EXTENDS Integers, Sequences, FiniteSets, TLC

VARIABLES
    WORDS,  \* the Counter built at import: word -> count
    N,      \* the default N of P, sum(WORDS.values()) taken when P is defined
    op,     \* the function the caller called last, "idle" when it holds no result
    arg,    \* the argument of that call
    ret,    \* the value it returned
    err     \* the exception it raised, "none" when it returned

vars == <<WORDS, N, op, arg, ret, err>>

-----------------------------------------------------------------------------
(* Bounds of the model *)

\* longest input word handed to an operation
MaxLen == 3

\* largest number of tokens in the corpus the table is built from
MaxTokens == 3

\* the alphabet of line 9, cut to its first two letters
letters == <<"a", "b">>

\* a character \w+ accepts that is not in the alphabet
Digits == {"1"}

Range(s) == {s[i] : i \in 1..Len(s)}

Chars == Range(letters) \cup Digits

\* the words given as arguments
InputWords == UNION {[1..n -> Chars] : n \in 0..MaxLen}

\* the tokens the corpus is made of (words() yields non-empty tokens only)
Vocabulary ==
    { <<"a">>, <<"1">>, <<"a", "b">>, <<"b", "1">>, <<"b", "a", "b">> }

Corpora == UNION {[1..n -> Vocabulary] : n \in 0..MaxTokens}

-----------------------------------------------------------------------------
(* Python values *)

None == "None"
NoError == "none"
IndexError == "IndexError"

\* s[i:] of a string
Slice(s, i) == SubSeq(s, i + 1, Len(s))

\* s[:i] of a string
Prefix(s, i) == SubSeq(s, 1, i)

\* s[i] of a string, as a one-character string; out of range raises IndexError
At(s, i) == IF i < Len(s) THEN <<s[i + 1]>> ELSE <<IndexError>>

\* an IndexError was raised while building this list of words
Raised(list) == \E i \in 1..Len(list) : IndexError \in Range(list[i])

RECURSIVE Flatten(_)
Flatten(ss) == IF ss = <<>> THEN <<>> ELSE Head(ss) \o Flatten(Tail(ss))

RECURSIVE SumCounts(_, _)
SumCounts(table, keys) ==
    IF keys = {} THEN 0
    ELSE LET k == CHOOSE x \in keys : TRUE
         IN  table[k] + SumCounts(table, keys \ {k})

-----------------------------------------------------------------------------
(* The frequency table *)

\* Counter(tokens)
Counter(tokens) ==
    [w \in Range(tokens) |->
        Cardinality({i \in 1..Len(tokens) : tokens[i] = w})]

\* WORDS[word] of a Counter: a missing key counts 0
Lookup(table, word) == IF word \in DOMAIN table THEN table[word] ELSE 0

\* the table after WORDS[word] of a defaultdict(int): a missing key is stored
AfterLookup_stores(table, word) ==
    IF word \in DOMAIN table THEN table
    ELSE [w \in DOMAIN table \cup {word} |->
             IF w = word THEN 0 ELSE table[w]]

\* the table after WORDS[word]: a Counter stores nothing for a missing key
AfterLookup(table, word) == table

RECURSIVE AfterLookups(_, _)
AfterLookups(table, ws) ==
    IF ws = {} THEN table
    ELSE LET w == CHOOSE x \in ws : TRUE
         IN  AfterLookups(AfterLookup(table, w), ws \ {w})

\* P with add-one smoothing of the count
P_smoothed(word) == [num |-> Lookup(WORDS, word) + 1, den |-> N]

\* P(word) with the default N, when float(N) is not zero
P(word) == [num |-> Lookup(WORDS, word), den |-> N]

\* p < q for two fractions with positive denominators
PLess(p, q) == p.num * q.den < q.num * p.den

-----------------------------------------------------------------------------
(* The edit generator *)

get_splits(word) ==
    [i \in 1..(Len(word) + 1) |-> <<Prefix(word, i - 1), Slice(word, i - 1)>>]

\* get_deletes that drops two characters: R[2:] in place of R[1:]
get_deletes_two(splits) ==
    [i \in 1..Len(splits) |-> splits[i][1] \o Slice(splits[i][2], 2)]

get_deletes(splits) ==
    [i \in 1..Len(splits) |-> splits[i][1] \o Slice(splits[i][2], 1)]

\* get_transposes guarded by `if R` in place of `if len(R)>1`
get_transposes_if_R(splits) ==
    LET sel == SelectSeq(splits, LAMBDA s : s[2] # <<>>)
    IN  [i \in 1..Len(sel) |->
            sel[i][1] \o At(sel[i][2], 1) \o At(sel[i][2], 0)
                      \o Slice(sel[i][2], 2)]

get_transposes(splits) ==
    LET sel == SelectSeq(splits, LAMBDA s : Len(s[2]) > 1)
    IN  [i \in 1..Len(sel) |->
            sel[i][1] \o At(sel[i][2], 1) \o At(sel[i][2], 0)
                      \o Slice(sel[i][2], 2)]

get_replaces(splits) ==
    LET sel == SelectSeq(splits, LAMBDA s : s[2] # <<>>)
    IN  Flatten([i \in 1..Len(sel) |->
            [j \in 1..Len(letters) |->
                sel[i][1] \o <<letters[j]>> \o Slice(sel[i][2], 1)]])

get_inserts(splits) ==
    Flatten([i \in 1..Len(splits) |->
        [j \in 1..Len(letters) |->
            splits[i][1] \o <<letters[j]>> \o splits[i][2]]])

\* deletes + transposes + replaces + inserts, before set()
edits1_list(word) ==
    LET splits == get_splits(word)
    IN  get_deletes(splits) \o get_transposes(splits)
          \o get_replaces(splits) \o get_inserts(splits)

edits1(word) == Range(edits1_list(word))

\* the generator of edits2, collected
edits2(word) == UNION {edits1(e1) : e1 \in edits1(word)}

-----------------------------------------------------------------------------
(* Candidates and correction *)

known(words) == {w \in words : w \in DOMAIN WORDS}

\* candidate without its first operand known([word])
candidate_skips_known(word) ==
    IF known(edits1(word)) # {} THEN known(edits1(word))
    ELSE IF known(edits2(word)) # {} THEN known(edits2(word))
    ELSE {word}

\* candidate with the one-edit and two-edit stages merged
candidate_merged(word) ==
    IF known({word}) # {} THEN known({word})
    ELSE IF known(edits1(word) \cup edits2(word)) # {}
         THEN known(edits1(word) \cup edits2(word))
    ELSE {word}

\* candidate that tries the one-edit stage before the word itself
candidate_edits1_first(word) ==
    IF known(edits1(word)) # {} THEN known(edits1(word))
    ELSE IF known({word}) # {} THEN known({word})
    ELSE IF known(edits2(word)) # {} THEN known(edits2(word))
    ELSE {word}

\* the or-chain of candidate: the first operand that is not empty
candidate(word) ==
    LET k0 == known({word})
        k1 == known(edits1(word))
        k2 == known(edits2(word))
    IN  IF k0 # {} THEN k0
        ELSE IF k1 # {} THEN k1
        ELSE IF k2 # {} THEN k2
        ELSE {word}

\* an operand of the or-chain that is evaluated raises IndexError
candidate_raises(word) ==
    /\ known({word}) = {}
    /\ \/ Raised(edits1_list(word))
       \/ /\ known(edits1(word)) = {}
          /\ \E e1 \in edits1(word) : Raised(edits1_list(e1))

\* the orders in which a collection can be iterated
Orders(S) == {o \in [1..Cardinality(S) -> S] : Range(o) = S}

\* max(order, key=P): the first element no later one exceeds
RECURSIVE MaxFrom(_, _, _)
MaxFrom(order, i, best) ==
    IF i > Len(order) THEN best
    ELSE MaxFrom(order, i + 1,
                 IF PLess(P(best), P(order[i])) THEN order[i] ELSE best)

\* max without its key: the first element iterated
PyMax_first(order) == order[1]

PyMax(order) == MaxFrom(order, 2, order[1])

-----------------------------------------------------------------------------
(* The state machine: the module is imported (Init); a caller that holds no *)
(* result calls one function, looks at what it returned or raised, and     *)
(* drops it before the next call.                                          *)

Idle == "idle"

Init ==
    /\ \E corpus \in Corpora : WORDS = Counter(corpus)
    /\ N = SumCounts(WORDS, DOMAIN WORDS)
    /\ op = Idle
    /\ arg = None
    /\ ret = None
    /\ err = NoError

Returns(name, a, value) ==
    /\ op' = name
    /\ arg' = a
    /\ ret' = value
    /\ err' = NoError

Raises(name, a, exception) ==
    /\ op' = name
    /\ arg' = a
    /\ ret' = None
    /\ err' = exception

PCall(word) ==
    /\ op = Idle
    /\ WORDS' = AfterLookup(WORDS, word)
    /\ IF N = 0
       THEN Raises("P", word, "ZeroDivisionError")
       ELSE Returns("P", word, P(word))
    /\ UNCHANGED N

KnownCall(words) ==
    /\ op = Idle
    /\ Returns("known", words, known(words))
    /\ UNCHANGED <<WORDS, N>>

GetDeletesCall(word) ==
    /\ op = Idle
    /\ Returns("get_deletes", word, get_deletes(get_splits(word)))
    /\ UNCHANGED <<WORDS, N>>

GetTransposesCall(word) ==
    /\ op = Idle
    /\ LET out == get_transposes(get_splits(word))
       IN  IF Raised(out)
           THEN Raises("get_transposes", word, IndexError)
           ELSE Returns("get_transposes", word, out)
    /\ UNCHANGED <<WORDS, N>>

Edits1Call(word) ==
    /\ op = Idle
    /\ IF Raised(edits1_list(word))
       THEN Raises("edits1", word, IndexError)
       ELSE Returns("edits1", word, edits1(word))
    /\ UNCHANGED <<WORDS, N>>

CandidateCall(word) ==
    /\ op = Idle
    /\ IF candidate_raises(word)
       THEN Raises("candidate", word, IndexError)
       ELSE Returns("candidate", word, candidate(word))
    /\ UNCHANGED <<WORDS, N>>

\* correction(word), called under the name `name`
Correct(name, word) ==
    IF candidate_raises(word)
    THEN Raises(name, word, IndexError) /\ UNCHANGED WORDS
    ELSE LET c == candidate(word)
         IN  IF c = {}
             THEN Raises(name, word, "ValueError") /\ UNCHANGED WORDS
             ELSE IF N = 0
             THEN /\ Raises(name, word, "ZeroDivisionError")
                  /\ \E w \in c : WORDS' = AfterLookup(WORDS, w)
             ELSE /\ \E order \in Orders(c) : Returns(name, word, PyMax(order))
                  /\ WORDS' = AfterLookups(WORDS, c)

CorrectionCall(word) ==
    /\ op = Idle
    /\ Correct("correction", word)
    /\ UNCHANGED N

\* correction(correction(word)): the result is corrected once more
CorrectionAgain ==
    /\ op = "correction"
    /\ err = NoError
    /\ Correct("correction2", ret)
    /\ UNCHANGED N

\* the caller drops the result
Drop ==
    /\ op # Idle
    /\ op' = Idle
    /\ arg' = None
    /\ ret' = None
    /\ err' = NoError
    /\ UNCHANGED <<WORDS, N>>

Next ==
    \/ \E word \in InputWords :
        \/ PCall(word)
        \/ KnownCall({word})
        \/ KnownCall(edits1(word))
        \/ GetDeletesCall(word)
        \/ GetTransposesCall(word)
        \/ Edits1Call(word)
        \/ CandidateCall(word)
        \/ CorrectionCall(word)
    \/ CorrectionAgain
    \/ Drop

Spec == Init /\ [][Next]_vars

-----------------------------------------------------------------------------
(* Vocabulary of the properties *)

Keys == DOMAIN WORDS

\* the keys one edit, and two edits, away from a word
Keys1(w) == {k \in Keys : k \in edits1(w)}
Keys2(w) == {k \in Keys : \E e \in edits1(w) : k \in edits1(e)}

\* e is w with the character at position i deleted
IsDelete(w, e) ==
    \E i \in 1..Len(w) :
        e = [j \in 1..(Len(w) - 1) |-> IF j < i THEN w[j] ELSE w[j + 1]]

\* e is w with the characters at positions i and i+1 swapped
IsTranspose(w, e) ==
    \E i \in 1..(Len(w) - 1) :
        e = [j \in 1..Len(w) |->
                IF j = i THEN w[i + 1] ELSE IF j = i + 1 THEN w[i] ELSE w[j]]

\* e is w with the character at position i replaced by a letter
IsReplace(w, e) ==
    \E i \in 1..Len(w) : \E c \in Range(letters) :
        e = [j \in 1..Len(w) |-> IF j = i THEN c ELSE w[j]]

\* e is w with a letter inserted at position i
IsInsert(w, e) ==
    \E i \in 1..(Len(w) + 1) : \E c \in Range(letters) :
        e = [j \in 1..(Len(w) + 1) |->
                IF j < i THEN w[j] ELSE IF j = i THEN c ELSE w[j - 1]]

AbsDiff(m, n) == IF m < n THEN n - m ELSE m - n

-----------------------------------------------------------------------------
(* C1: correction of a word that is a key of the table returns that word,  *)
(* also when more frequent keys lie within one or two edits of it.         *)
C1_KnownWordIsFixed ==
    (op = "correction" /\ arg \in Keys) => (err = NoError /\ ret = arg)

C1_Witness ==
    /\ op = "correction"
    /\ arg \in Keys
    /\ err = NoError
    /\ \E k \in Keys1(arg) : WORDS[k] > WORDS[arg]

(* C2: candidate(word) is the first non-empty stage of: {word} when word   *)
(* is a key; the keys in edits1(word); the keys in edits1(e) for e in      *)
(* edits1(word); the word alone.                                           *)
C2_Cascade ==
    op = "candidate" =>
        /\ err = NoError
        /\ ret = IF arg \in Keys THEN {arg}
                 ELSE IF Keys1(arg) # {} THEN Keys1(arg)
                 ELSE IF Keys2(arg) # {} THEN Keys2(arg)
                 ELSE {arg}

\* a key two edits away is left out because a key one edit away exists
C2_Witness ==
    /\ op = "candidate"
    /\ err = NoError
    /\ arg \notin Keys
    /\ Keys1(arg) # {}
    /\ Keys2(arg) \ Keys1(arg) # {}
    /\ ret = Keys1(arg)

(* C3: correction(w) is a candidate of w, and no candidate of w is more    *)
(* probable than it.                                                       *)
C3_MostProbable ==
    (op = "correction" /\ err = NoError) =>
        LET cands == candidate(arg)
        IN  /\ ret \in cands
            /\ \A c \in cands : ~PLess(P(ret), P(c))

\* the candidates differ in probability
C3_Witness ==
    /\ op = "correction"
    /\ err = NoError
    /\ \E c \in candidate(arg) : PLess(P(c), P(ret))

(* C4: with a table of at least one word, candidate returns a non-empty    *)
(* collection and correction returns a word, for every input word, the     *)
(* empty one included; neither raises.                                     *)
C4_Total ==
    (Keys # {} /\ op \in {"candidate", "correction"}) =>
        /\ err = NoError
        /\ op = "candidate" => ret # {}
        /\ op = "correction" => ret \in Keys \cup {arg}

C4_Witness ==
    /\ Keys # {}
    /\ op = "correction"
    /\ arg = <<>>
    /\ err = NoError
    /\ ret = <<>>

\* what the claim says P(word) returns
Fraction(word) ==
    [num |-> IF word \in Keys THEN WORDS[word] ELSE 0,
     den |-> SumCounts(WORDS, Keys)]

\* P(word) returns count(word)/total_count, which is at least 0, and 0 for
\* a word that is not in the table; the probabilities of the keys sum to 1
PContract ==
    /\ err = NoError
    /\ ret = Fraction(arg)
    /\ ret.den > 0
    /\ ret.num >= 0
    /\ arg \notin Keys => ret.num = 0
    /\ SumCounts([k \in Keys |-> P(k).num], Keys) = N

(* C5 as stated: the contract of P holds for every table, the one built    *)
(* from an empty corpus included.                                          *)
C5_AnyTable == op = "P" => PContract

(* C5, amended: the contract of P holds for every table of at least one    *)
(* word.                                                                   *)
C5_NonEmptyTable == (op = "P" /\ Keys # {}) => PContract

\* P of a word that is not in a non-empty table
C5_Witness ==
    /\ op = "P"
    /\ Keys # {}
    /\ arg \notin Keys
    /\ err = NoError
    /\ ret.num = 0

(* C6: no call changes the table: the keys and their counts stay as they   *)
(* were built, so a word that was looked up is still not a key.            *)
C6_TableUnchanged == [][WORDS' = WORDS]_vars

\* a word that is not a key has been looked up, by P or by correction
C6_Witness ==
    /\ op \in {"P", "correction"}
    /\ err = NoError
    /\ arg \notin Keys
    /\ op = "correction" => ret = arg

(* C7: get_deletes(get_splits(word)) has len(word) entries, each one       *)
(* character shorter than word; the word itself is not among them.         *)
C7_Deletes ==
    op = "get_deletes" =>
        /\ Len(ret) = Len(arg)
        /\ \A i \in 1..Len(ret) : Len(ret[i]) = Len(arg) - 1
        /\ arg \notin Range(ret)

(* C8: edits1(word) has at most n + (n-1 if n >= 1) + A*n + A*(n+1)        *)
(* elements, for a word of length n and an alphabet of A letters.          *)
C8_SizeBound ==
    (op = "edits1" /\ err = NoError) =>
        LET n == Len(arg)
            A == Len(letters)
        IN  Cardinality(ret)
              <= n + (IF n >= 1 THEN n - 1 ELSE 0) + A * n + A * (n + 1)

(* C9: every member of edits1(w) is w, or w with one character deleted,    *)
(* two adjacent characters swapped, one character replaced by a letter or  *)
(* one letter inserted; its length is within 1 of len(w); a word of length *)
(* 1 has no transposition.                                                 *)
C9_OneEdit ==
    /\ (op = "edits1" /\ err = NoError) =>
          \A e \in ret :
              /\ \/ e = arg
                 \/ IsDelete(arg, e)
                 \/ IsTranspose(arg, e)
                 \/ IsReplace(arg, e)
                 \/ IsInsert(arg, e)
              /\ AbsDiff(Len(e), Len(arg)) <= 1
    /\ (op = "get_transposes" /\ Len(arg) = 1) =>
          (err = NoError /\ ret = <<>>)

\* a member that is a proper transposition, and one that is a deletion
C9_Witness ==
    /\ op = "edits1"
    /\ err = NoError
    /\ \E e \in ret : e # arg /\ IsTranspose(arg, e)
    /\ \E e \in ret : IsDelete(arg, e)

(* C10: with a table of at least one word, correcting the result of        *)
(* correction returns it unchanged.                                        *)
C10_Idempotent ==
    (op = "correction2" /\ Keys # {}) => (err = NoError /\ ret = arg)

\* the first result is a key with a more frequent key one edit away
C10_Witness ==
    /\ op = "correction2"
    /\ err = NoError
    /\ arg \in Keys
    /\ \E k \in Keys1(arg) : WORDS[k] > WORDS[arg]
    /\ ret = arg

====
